---------------------------- MODULE Spec2Model ----------------------------
(***************************************************************************)
(* The MIPS architecture descriptor and calling-convention binding of      *)
(* src/omo/src/arch.rs, over a register bank and a byte-addressed linear   *)
(* memory.                                                                 *)
(*                                                                         *)
(* A u64 is a sequence of 8 bytes, least significant first, so that the    *)
(* 64-bit width of values, the pointer-size width of registers and stack   *)
(* words and the byte order of memory are all kept.  A slot index is a     *)
(* plain integer; `slot as u8` is its remainder modulo 256.                *)
(***************************************************************************)
EXTENDS Integers, Sequences, FiniteSets, TLC

VARIABLES core, last, panicked, steps

vars == <<core, last, panicked, steps>>

(***************************************************************************)
(* Bounds of the model.                                                    *)
(***************************************************************************)
\* Bytes of linear memory that are mapped: addresses 0 .. MemSize-1.
MemSize == 80
\* Operations performed in one behaviour.
MaxSteps == 2

(***************************************************************************)
(* u64 values as 8 little-endian-significance bytes.                       *)
(***************************************************************************)
Byte == 0..255

Pow2(n) == CASE n = 0 -> 1 [] n = 1 -> 2 [] n = 2 -> 4 [] n = 3 -> 8
             [] n = 4 -> 16 [] n = 5 -> 32 [] n = 6 -> 64 [] n = 7 -> 128
             [] OTHER -> 256

\* The u64 whose value is n, for 0 <= n < 2^24.
FromInt(n) == [i \in 1..8 |-> CASE i = 1 -> n % 256
                                [] i = 2 -> (n \div 256) % 256
                                [] i = 3 -> (n \div 65536) % 256
                                [] OTHER -> 0]

\* The integer value of a u64 below 2^24, and 2^24 (an address no mapping
\* of this model reaches) for every larger one.
ToInt(v) == IF \E i \in 4..8 : v[i] # 0 THEN 16777216
            ELSE v[1] + 256 * v[2] + 65536 * v[3]

\* v reduced to its low n bytes (v as uN for N = 8 * n).
Trunc(v, n) == [i \in 1..8 |-> IF i <= n THEN v[i] ELSE 0]

\* v & ((1 << bits) - 1), the whole of v when bits >= 64.
MaskBits(v, bits) == [i \in 1..8 |->
                        IF 8 * i <= bits THEN v[i]
                        ELSE IF 8 * (i - 1) >= bits THEN 0
                        ELSE v[i] % Pow2(bits - 8 * (i - 1))]

\* Option<u64>: None is the empty sequence, Some(n) is <<n>>.
None == <<>>

Some(n) == <<n>>

\* The mask of an optional width: no width keeps the value whole.
Mask(v, argbits) == IF argbits = None THEN v ELSE MaskBits(v, argbits[1])

Zero == FromInt(0)
X_dead == FromInt(57005)
X_2p32 == [i \in 1..8 |-> IF i = 5 THEN 1 ELSE 0]
X_max == [i \in 1..8 |-> 255]

Fits(v, n) == Trunc(v, n) = v


(***************************************************************************)
(* The engine's mode flags (unicorn_const::Mode, a bit set) and the        *)
(* register identifiers (RegisterMIPS, named by their enumerators).        *)
(***************************************************************************)
MODE_LITTLE_ENDIAN == 0
MODE_BIG_ENDIAN == 1073741824
MODE_32 == 4
MODE_64 == 8

RECURSIVE BitOr(_, _)
\* a | b on non-negative integers.
BitOr(a, b) == IF a = 0 THEN b
               ELSE IF b = 0 THEN a
               ELSE (IF a % 2 = 1 \/ b % 2 = 1 THEN 1 ELSE 0)
                    + 2 * BitOr(a \div 2, b \div 2)

RECURSIVE BitAnd(_, _)
\* a & b on non-negative integers.
BitAnd(a, b) == IF a = 0 \/ b = 0 THEN 0
                ELSE (IF a % 2 = 1 /\ b % 2 = 1 THEN 1 ELSE 0)
                     + 2 * BitAnd(a \div 2, b \div 2)

\* Mode::contains: every bit of flag is set in mode.
Carries(mode, flag) == BitAnd(mode, flag) = flag

Endian == {"Little", "Big"}

RegIds == {"PC", "V0", "A0", "A1", "A2", "A3", "SP", "RA"}

(***************************************************************************)
(* ArchMIPS and its ArchT accessors.                                       *)
(***************************************************************************)
ArchMIPS == [mode32 : BOOLEAN, endian : Endian]

ArchMIPS_default == [mode32 |-> TRUE, endian |-> "Big"]

ArchMIPS_endian(a) == a.endian

ArchMIPS_arch(a) == "MIPS"

ArchMIPS_mode(a) ==
    LET mode == IF a.mode32 THEN MODE_32 ELSE MODE_64
    IN  IF a.endian = "Little" THEN BitOr(mode, MODE_LITTLE_ENDIAN)
        ELSE BitOr(mode, MODE_BIG_ENDIAN)

\* The pointer size of the 32-bit mode, whatever the mode.
ArchMIPS_pointer_size_Always4(a) == 4

ArchMIPS_pointer_size(a) == IF a.mode32 THEN 4 ELSE 8

ArchMIPS_pc_reg_id(a) == "PC"

ArchMIPS_sp_reg_id(a) == "SP"

(***************************************************************************)
(* MipsCC: the ABI constants of the binding.                               *)
(***************************************************************************)
\* The return register taken for the first argument register.
RET_REG_Wrong == "A0"

RET_REG == "V0"

ARG_REGS == <<"A0", "A1", "A2", "A3">>

ARG_ON_STACK == 12

SHADOW == 4

RET_ADDR_ON_STACK == FALSE

(***************************************************************************)
(* CallingConventionCommon::new: the constants as the engine keeps them,   *)
(* with its slots-reserved cursor at zero.                                 *)
(***************************************************************************)
CallingConventionCommon_new(ret_reg, arg_regs, arg_on_stack, shadow, ret_addr_on_stack, pointer_size) ==
    [ret_reg |-> ret_reg, arg_regs |-> arg_regs, arg_on_stack |-> arg_on_stack,
     shadow |-> shadow, ret_addr_on_stack |-> ret_addr_on_stack,
     pointer_size |-> pointer_size, reserved |-> 0]

\* The stack-slot count and the shadow size passed in each other's place.
MIPS_new_Swapped(arch) ==
    [arch_info |-> arch,
     cc |-> [inner |-> CallingConventionCommon_new(
                           RET_REG, ARG_REGS, SHADOW, ARG_ON_STACK,
                           RET_ADDR_ON_STACK, ArchMIPS_pointer_size(arch))]]

MIPS_new(arch) ==
    [arch_info |-> arch,
     cc |-> [inner |-> CallingConventionCommon_new(
                           RET_REG, ARG_REGS, ARG_ON_STACK, SHADOW,
                           RET_ADDR_ON_STACK, ArchMIPS_pointer_size(arch))]]

(***************************************************************************)
(* impl ArchT for MIPS, and the two inherent accessors of MIPS.            *)
(***************************************************************************)
MIPS_endian(m) == m.arch_info.endian

MIPS_pointer_size(m) == ArchMIPS_pointer_size(m.arch_info)

MIPS_pc_reg_id(m) == ArchMIPS_pc_reg_id(m.arch_info)

MIPS_sp_reg_id(m) == ArchMIPS_sp_reg_id(m.arch_info)

MIPS_arch(m) == ArchMIPS_arch(m.arch_info)

MIPS_mode(m) == ArchMIPS_mode(m.arch_info)

MIPS_pointersize(m) == ArchMIPS_pointer_size(m.arch_info)

MIPS_inherent_endian(m) == m.arch_info.endian

(***************************************************************************)
(* impl ArchT for Core<A>, at A = MIPS: self.get_data().arch_info is the   *)
(* MIPS value the core was built with.                                     *)
(***************************************************************************)
Core_endian(self) == MIPS_endian(self.data.arch_info)

Core_pointer_size(self) == MIPS_pointer_size(self.data.arch_info)

Core_pc_reg_id(self) == MIPS_pc_reg_id(self.data.arch_info)

Core_sp_reg_id(self) == MIPS_sp_reg_id(self.data.arch_info)

Core_arch(self) == MIPS_arch(self.data.arch_info)

Core_mode(self) == MIPS_mode(self.data.arch_info)

(***************************************************************************)
(* Results.  A result is Ok with a value or Err with an error kind; loc is *)
(* the register or the memory word the operation accessed, if any.         *)
(***************************************************************************)
NoLoc == [kind |-> "none", reg |-> "", addr |-> 0]

RegLoc(id) == [kind |-> "reg", reg |-> id, addr |-> 0]

MemLoc(addr) == [kind |-> "mem", reg |-> "", addr |-> addr]

Ok(v, loc) == [ok |-> TRUE, val |-> v, err |-> "", loc |-> loc]

Err(e, loc) == [ok |-> FALSE, val |-> Zero, err |-> e, loc |-> loc]

\* What an operation yields: the core after it, its result, and whether it
\* panicked instead of returning.
Out(self, res) == [self |-> self, res |-> res, panic |-> FALSE]

Panic(self) == [self |-> self, res |-> Err("panic", NoLoc), panic |-> TRUE]

(***************************************************************************)
(* The execution core's register and memory interface.  A register is      *)
(* pointer-size wide: a write keeps the low pointer_size bytes, a read     *)
(* zero-extends them.  Memory is mapped at 0 .. MemSize-1.  With fault set *)
(* the engine refuses every access.                                        *)
(***************************************************************************)
reg_read(self, id) ==
    IF self.fault \/ id \notin RegIds
    THEN Err("UnderlyingAccessFailure", RegLoc(id))
    ELSE Ok(self.regs[id], RegLoc(id))

reg_write(self, id, v) ==
    IF self.fault \/ id \notin RegIds
    THEN Out(self, Err("UnderlyingAccessFailure", RegLoc(id)))
    ELSE Out([self EXCEPT !.regs[id] = Trunc(v, Core_pointer_size(self))],
             Ok(Zero, RegLoc(id)))

Mapped(addr, len) == addr >= 0 /\ addr + len <= MemSize

\* The len bytes at addr, in address order.
mem_read(self, addr, len) ==
    IF self.fault \/ ~Mapped(addr, len) THEN <<>>
    ELSE [i \in 1..len |-> self.mem[addr + i - 1]]

mem_write(self, addr, bytes) ==
    IF self.fault \/ ~Mapped(addr, Len(bytes))
    THEN Out(self, Err("UnderlyingAccessFailure", MemLoc(addr)))
    ELSE Out([self EXCEPT !.mem = [a \in DOMAIN self.mem |->
                      IF a >= addr /\ a < addr + Len(bytes)
                      THEN bytes[a - addr + 1] ELSE self.mem[a]]],
             Ok(Zero, MemLoc(addr)))

\* The low n bytes of v in the byte order of memory, and back.
Pack(v, n, endian) ==
    [i \in 1..n |-> IF endian = "Little" THEN v[i] ELSE v[n - i + 1]]

Unpack(bytes, endian) ==
    LET n == Len(bytes)
    IN  [i \in 1..8 |-> IF i > n THEN 0
                        ELSE IF endian = "Little" THEN bytes[i]
                        ELSE bytes[n - i + 1]]

\* A pointer-size word of the stack, read and written through the core.
read_ptr(self, addr) ==
    LET bytes == mem_read(self, addr, Core_pointer_size(self))
    IN  IF bytes = <<>> THEN Err("UnderlyingAccessFailure", MemLoc(addr))
        ELSE Ok(Unpack(bytes, Core_endian(self)), MemLoc(addr))

write_ptr(self, addr, v) ==
    mem_write(self, addr, Pack(v, Core_pointer_size(self), Core_endian(self)))

(***************************************************************************)
(* The common calling-convention engine (CallingConventionCommon), bound   *)
(* to the constants cc.  A logical slot, counted from the slots-reserved   *)
(* cursor, resolves to an argument register, to a stack offset, or to      *)
(* nothing.                                                                *)
(***************************************************************************)
cc_resolve(cc, slot) ==
    LET idx == slot + cc.reserved
        nregs == Len(cc.arg_regs)
        si == idx - nregs
        ret == IF cc.ret_addr_on_stack THEN 1 ELSE 0
    IN  IF idx < nregs
        THEN [kind |-> "reg", reg |-> cc.arg_regs[idx + 1], off |-> 0]
        ELSE IF si < cc.arg_on_stack
        THEN [kind |-> "stack", reg |-> "",
              off |-> (ret + cc.shadow + si) * cc.pointer_size]
        ELSE [kind |-> "invalid", reg |-> "", off |-> 0]

\* A result with its value masked to the requested width.
Masked(r, argbits) == IF r.ok THEN Ok(Mask(r.val, argbits), r.loc) ELSE r

cc_get_ram_param(cc, self, slot, argbits) ==
    LET at == cc_resolve(cc, slot)
        sp == reg_read(self, Core_sp_reg_id(self))
    IN  CASE at.kind = "reg" -> Masked(reg_read(self, at.reg), argbits)
          [] at.kind = "stack" ->
               IF ~sp.ok THEN sp
               ELSE Masked(read_ptr(self, ToInt(sp.val) + at.off), argbits)
          [] OTHER -> Err("InvalidSlot", NoLoc)

cc_set_raw_param(cc, self, slot, value, argbits) ==
    LET at == cc_resolve(cc, slot)
        sp == reg_read(self, Core_sp_reg_id(self))
        v == Mask(value, argbits)
    IN  CASE at.kind = "reg" -> reg_write(self, at.reg, v)
          [] at.kind = "stack" ->
               IF ~sp.ok THEN Out(self, sp)
               ELSE write_ptr(self, ToInt(sp.val) + at.off, v)
          [] OTHER -> Out(self, Err("InvalidSlot", NoLoc))

cc_get_return_value(cc, self) == reg_read(self, cc.ret_reg)

cc_set_return_value(cc, self, val) == reg_write(self, cc.ret_reg, val)

\* Advances the cursor of the engine value it is called on; the core is
\* not touched.
cc_reserve(cc, self, nslots) ==
    IF cc.reserved + nslots > Len(cc.arg_regs) + cc.arg_on_stack
    THEN [cc |-> cc, out |-> Out(self, Err("InvalidSlot", NoLoc))]
    ELSE [cc |-> [cc EXCEPT !.reserved = cc.reserved + nslots],
          out |-> Out(self, Ok(Zero, NoLoc))]

(***************************************************************************)
(* impl CallingConvention for Core<MIPS>.                                  *)
(***************************************************************************)
\* slot as u8
AsU8(n) == n % 256

\* self.get_data().arch_info.cc.inner.clone()
InnerClone(self) == self.data.arch_info.cc.inner

get_num_slots(argbits) == 1

get_raw_param(self, slot, argbits) ==
    LET inner == InnerClone(self)
    IN  Out(self, cc_get_ram_param(inner, self, AsU8(slot), argbits))

\* The value narrowed to 8 bits as the slot is.
set_raw_param_NarrowsValue(self, slot, value, argbits) ==
    LET inner == InnerClone(self)
    IN  cc_set_raw_param(inner, self, AsU8(slot), Trunc(value, 1), argbits)

set_raw_param(self, slot, value, argbits) ==
    LET inner == InnerClone(self)
    IN  cc_set_raw_param(inner, self, AsU8(slot), value, argbits)

get_return_value(self) ==
    LET inner == InnerClone(self)
    IN  Out(self, cc_get_return_value(inner, self))

set_return_value(self, val) ==
    LET inner == InnerClone(self)
    IN  cc_set_return_value(inner, self, val)

\* unreachable!()
set_return_address(self, addr) == Panic(self)

\* The engine called is a clone, dropped at the end of the call: the core's
\* own engine value is the one it had.
reserve(self, nslots) ==
    LET inner == InnerClone(self)
    IN  cc_reserve(inner, self, nslots).out

\* The stack pointer read in place of the link register.
unwind_ReadsSP(self, nslots) ==
    LET r == reg_read(self, "SP")
    IN  Out(self, IF r.ok THEN Ok(r.val, r.loc) ELSE Err(r.err, r.loc))

unwind(self, nslots) ==
    LET r == reg_read(self, "RA")
    IN  Out(self, IF r.ok THEN Ok(r.val, r.loc) ELSE Err(r.err, r.loc))

(***************************************************************************)
(* The state machine: one Core<MIPS> (its data, register bank, memory and  *)
(* the engine's fault state), the last protocol call with its result, and  *)
(* whether a call has panicked.                                            *)
(***************************************************************************)
\* Inputs of the calls.
SlotInputs == {0, 4, 5, 15, 16, 256, 260, 1000}

ValInputs == {X_dead, X_max}

BitsInputs == {None, Some(8)}

CountInputs == {1, 6, 17}

WidthInputs == {8, 32, 64}

StackPointers == {0, 16}

InitRegs(sp) ==
    [id \in RegIds |-> CASE id = "SP" -> FromInt(sp)
                         [] id = "PC" -> FromInt(64)
                         [] id = "V0" -> FromInt(176)
                         [] id = "A0" -> FromInt(160)
                         [] id = "A1" -> FromInt(161)
                         [] id = "A2" -> FromInt(162)
                         [] id = "A3" -> FromInt(163)
                         [] OTHER -> FromInt(4096)]

InitMem == [a \in 0..(MemSize - 1) |-> (3 * a + 1) % 256]

Call(op, n, val, argbits, res, num) ==
    [op |-> op, n |-> n, val |-> val, argbits |-> argbits, res |-> res,
     num |-> num]

Init ==
    /\ \E arch \in ArchMIPS :
         core = [data |-> [arch_info |-> MIPS_new(arch)],
                 regs |-> InitRegs(0), mem |-> InitMem, fault |-> FALSE]
    /\ last = Call("new", 0, Zero, None, Ok(Zero, NoLoc), 0)
    /\ panicked = FALSE
    /\ steps = 0

Running == ~panicked /\ steps < MaxSteps

\* A protocol call that yielded out.
Did(op, n, val, argbits, out) ==
    /\ core' = out.self
    /\ last' = Call(op, n, val, argbits, out.res, 0)
    /\ panicked' = out.panic
    /\ steps' = steps + 1

GetNumSlots ==
    /\ Running
    /\ \E w \in WidthInputs :
         last' = Call("get_num_slots", w, Zero, Some(w), Ok(Zero, NoLoc),
                      get_num_slots(w))
    /\ steps' = steps + 1
    /\ UNCHANGED <<core, panicked>>

GetRawParam ==
    /\ Running
    /\ \E slot \in SlotInputs, argbits \in BitsInputs :
         Did("get_raw_param", slot, Zero, argbits,
             get_raw_param(core, slot, argbits))

SetRawParam ==
    /\ Running
    /\ \E slot \in SlotInputs, value \in ValInputs :
         Did("set_raw_param", slot, value, None,
             set_raw_param(core, slot, value, None))

GetReturnValue ==
    /\ Running
    /\ Did("get_return_value", 0, Zero, None, get_return_value(core))

SetReturnValue ==
    /\ Running
    /\ \E val \in ValInputs :
         Did("set_return_value", 0, val, None, set_return_value(core, val))

SetReturnAddress ==
    /\ Running
    /\ \E addr \in ValInputs :
         Did("set_return_address", 0, addr, None,
             set_return_address(core, addr))

Reserve ==
    /\ Running
    /\ \E nslots \in CountInputs :
         Did("reserve", nslots, Zero, None, reserve(core, nslots))

Unwind ==
    /\ Running
    /\ \E nslots \in CountInputs :
         Did("unwind", nslots, Zero, None, unwind(core, nslots))

\* The emulated program runs between two calls: it moves the stack pointer
\* or loads the link register.
EngineRuns ==
    /\ Running
    /\ \/ \E sp \in StackPointers :
            core' = [core EXCEPT !.regs["SP"] = FromInt(sp)]
       \/ core' = [core EXCEPT !.regs["RA"] = X_dead]
    /\ last' = Call("engine", 0, Zero, None, Ok(Zero, NoLoc), 0)
    /\ steps' = steps + 1
    /\ UNCHANGED panicked

\* The engine starts to refuse register and memory accesses.
EngineFaults ==
    /\ Running
    /\ ~core.fault
    /\ core' = [core EXCEPT !.fault = TRUE]
    /\ last' = Call("engine", 0, Zero, None, Ok(Zero, NoLoc), 0)
    /\ steps' = steps + 1
    /\ UNCHANGED panicked

Next ==
    \/ GetNumSlots
    \/ GetRawParam
    \/ SetRawParam
    \/ GetReturnValue
    \/ SetReturnValue
    \/ SetReturnAddress
    \/ Reserve
    \/ Unwind
    \/ EngineRuns
    \/ EngineFaults

Spec == Init /\ [][Next]_vars

(***************************************************************************)
(* What the properties below range over.                                   *)
(***************************************************************************)
Slots == {0, 1, 3, 4, 5, 15, 16, 17, 255, 256, 260, 1000}

X_u32max == Trunc(X_max, 4)

Values == {X_dead, X_u32max, X_2p32, X_max}

Bits == {None, Some(8), Some(32), Some(64)}

Counts == {0, 1, 2, 6, 17}

Widths == {0, 1, 8, 32, 33, 64, 65, 128}

PointerSize == Core_pointer_size(core)

\* The stack pointer as an address, when the core yields it.
StackPointer == ToInt(core.regs["SP"])

\* The n-th ABI argument register, n counted from zero.
ArgReg(n) == <<"A0", "A1", "A2", "A3">>[n + 1]

\* The result of a read of the pointer-size stack word at byte offset off
\* from the stack pointer, masked to argbits; the stack-pointer read's own
\* failure when the core refuses it.
StackWord(off, argbits) ==
    IF reg_read(core, "SP").ok
    THEN Masked(read_ptr(core, StackPointer + off), argbits)
    ELSE reg_read(core, "SP")

\* Slot k is read from its register (k < 4) or from the stack word at
\* (k - 4) * pointer_size + 4 * pointer_size from the stack pointer.
ReadsItsLocation(k) ==
    \A argbits \in Bits :
        get_raw_param(core, k, argbits).res =
            IF k < 4 THEN Masked(reg_read(core, ArgReg(k)), argbits)
            ELSE StackWord((k - 4) * PointerSize + 4 * PointerSize, argbits)

\* C1 as claimed: every k < 4 reads the k-th argument register, at any
\* width, and every k >= 4 reads the stack word at
\* stack_pointer + (k - 4) * pointer_size + 4 * pointer_size.
C1_AsClaimed ==
    last.op = "get_raw_param" =>
        last.res =
            IF last.n < 4
            THEN Masked(reg_read(core, ArgReg(last.n)), last.argbits)
            ELSE StackWord((last.n - 4) * PointerSize + 4 * PointerSize,
                           last.argbits)

\* C1, amended: every k < 4 reads the k-th argument register (A0, A1, A2,
\* A3) at any requested width, and every k with 4 <= k < 16 reads the
\* pointer-size word at stack_pointer + (k - 4) * pointer_size + 4 *
\* pointer_size with no return-address adjustment; on 32-bit MIPS slot 4 is
\* at offset 16 and slot 5 at offset 20.
C1_SlotLocation ==
    /\ \A k \in {s \in Slots : s < 16} : ReadsItsLocation(k)
    /\ (PointerSize = 4 /\ ~core.fault) =>
          /\ get_raw_param(core, 4, None).res.loc = MemLoc(StackPointer + 16)
          /\ get_raw_param(core, 5, None).res.loc = MemLoc(StackPointer + 20)

\* C1's case: slot 5 was read on 32-bit MIPS from the mapped word at offset
\* 20 of a non-zero stack pointer.
C1_Witness ==
    /\ last.op = "get_raw_param" /\ last.n = 5 /\ last.res.ok
    /\ PointerSize = 4 /\ StackPointer = 16
    /\ last.res.loc = MemLoc(36)

RECURSIVE WriteArgs(_, _, _)
\* set_raw_param of vs[1], vs[2], ... to the slots k, k+1, ... in order;
\* a failed write leaves the writes before it applied.
WriteArgs(self, k, vs) ==
    IF vs = <<>> THEN self
    ELSE WriteArgs(set_raw_param(self, k, Head(vs), None).self, k + 1,
                   Tail(vs))

OneToSix == [i \in 1..6 |-> FromInt(i)]

\* The core accepts accesses and the stack words of slots 4 .. k are mapped.
StackReady(k) ==
    /\ ~core.fault
    /\ Mapped(StackPointer + 4 * PointerSize, (k - 3) * PointerSize)

\* C2: set_raw_param(k, v) followed by get_raw_param(k) returns v, for every
\* slot index k whose write succeeds and every v that fits one pointer-size
\* word; the write succeeds for every k < 16 whose location the core
\* accepts; and after writing 1..6 to slots 0..5 in order, reading slots
\* 0..5 returns 1..6.
C2_RoundTrip ==
    /\ \A k \in Slots, v \in {x \in Values : Fits(x, PointerSize)} :
          LET w == set_raw_param(core, k, v, None)
          IN  /\ w.res.ok =>
                    get_raw_param(w.self, k, None).res = Ok(v, w.res.loc)
              /\ (k < 4 /\ ~core.fault) => w.res.ok
              /\ (k >= 4 /\ k < 16 /\ StackReady(k)) => w.res.ok
    /\ StackReady(5) =>
          LET after == WriteArgs(core, 0, OneToSix)
          IN  \A k \in 0..5 :
                  get_raw_param(after, k, None).res
                      = Ok(FromInt(k + 1), get_raw_param(core, k, None).res.loc)

\* C2's case: the stack slot 5 was written with a value that fits the word
\* and reads back as that value.
C2_Witness ==
    /\ last.op = "set_raw_param" /\ last.n = 5 /\ last.res.ok
    /\ last.val = X_dead
    /\ get_raw_param(core, 5, None).res.val = X_dead

\* The slot indices that are none of the binding's 16 defined slots.
Undefined == {k \in Slots : k >= 16}

\* C3 as claimed: for every slot index k >= 16, get_raw_param(k) and
\* set_raw_param(k, v) fail with InvalidSlot and access no register and no
\* memory word.
C3_InvalidSlot ==
    (last.op \in {"get_raw_param", "set_raw_param"} /\ last.n >= 16) =>
        /\ ~last.res.ok /\ last.res.err = "InvalidSlot"
        /\ last.res.loc = NoLoc

\* C4 as claimed: set_return_address returns an UnsupportedOperation error
\* and does not abort the program.
C4_UnsupportedOperation ==
    last.op = "set_return_address" =>
        /\ ~panicked
        /\ ~last.res.ok /\ last.res.err = "UnsupportedOperation"

\* ceil(a / b) for b > 0.
CeilDiv(a, b) == (a + b - 1) \div b

\* C5 as claimed: get_num_slots(width_bits) is ceil(width_bits /
\* (pointer_size * 8)), and at least 1.
C5_NumSlots ==
    last.op = "get_num_slots" =>
        last.num = IF CeilDiv(last.n, PointerSize * 8) < 1 THEN 1
                   ELSE CeilDiv(last.n, PointerSize * 8)

\* C6 as claimed: after a reserve(n) that succeeds, get_raw_param(0)
\* returns what get_raw_param(n) returned in the state before the reserve.
C6_ReservePersists ==
    [][(last'.op = "reserve" /\ last'.res.ok) =>
          get_raw_param(core', 0, None).res
              = get_raw_param(core, last'.n, None).res]_vars

\* C7: unwind(n) returns the value of the link register RA, the same for
\* every n, also after six arguments have been written; when the read of RA
\* fails, unwind returns that failure as an error.
C7_UnwindLinkRegister ==
    /\ \A n \in Counts :
          LET u == unwind(core, n)
          IN  /\ u.res.loc = RegLoc("RA")
              /\ ~core.fault => (u.res.ok /\ u.res.val = core.regs["RA"])
              /\ core.fault =>
                    (~u.res.ok /\ u.res.err = "UnderlyingAccessFailure")
              /\ u.res = unwind(core, 6).res
              /\ ~u.panic
    /\ unwind(WriteArgs(core, 0, OneToSix), 6).res = unwind(core, 6).res

\* C7's case: unwind(6) returned the link register's value, which the
\* emulated program had loaded.
C7_Witness ==
    /\ last.op = "unwind" /\ last.n = 6 /\ last.res.ok
    /\ last.res.val = X_dead /\ core.regs["RA"] = X_dead

\* The registers other than the return register, and memory, are those of
\* the core c.
OnlyV0Differs(self, c) ==
    /\ \A id \in RegIds \ {"V0"} : self.regs[id] = c.regs[id]
    /\ self.mem = c.mem
    /\ self.data = c.data

\* set_return_value(v), when it succeeds, is followed by a get_return_value
\* that returns v; both access V0 and nothing else.
ReturnRoundTrip(v) ==
    LET w == set_return_value(core, v)
        r == get_return_value(w.self)
    IN  /\ w.res.ok => (r.res.ok /\ r.res.val = v)
        /\ ~core.fault => w.res.ok
        /\ w.res.loc = RegLoc("V0") /\ r.res.loc = RegLoc("V0")
        /\ OnlyV0Differs(w.self, core)
        /\ r.self = w.self

\* C8 as claimed: set_return_value(v) followed by get_return_value()
\* returns v, for every v.
C8_AsClaimed ==
    (last.op = "set_return_value" /\ last.res.ok) =>
        /\ get_return_value(core).res.ok
        /\ get_return_value(core).res.val = last.val

\* C8, amended: set_return_value(v) followed by get_return_value() returns
\* v for every v that fits one pointer-size word, the width of V0; both
\* access only V0 and leave the argument registers, the stack pointer, the
\* link register and memory unchanged.
C8_ReturnValue ==
    /\ \A v \in {x \in Values : Fits(x, PointerSize)} : ReturnRoundTrip(v)
    /\ \A v \in Values :
          /\ OnlyV0Differs(set_return_value(core, v).self, core)
          /\ set_return_value(core, v).res.loc = RegLoc("V0")
    /\ get_return_value(core).self = core

\* C8's case: 0xdead was set as the return value and is what V0 reads as.
C8_Witness ==
    /\ last.op = "set_return_value" /\ last.val = X_dead /\ last.res.ok
    /\ get_return_value(core).res.val = X_dead

\* C9: the descriptor's facts agree, for the variant the core was built
\* from: pointer_size() is 4 exactly with MODE_32 and 8 exactly with
\* MODE_64, never both; the big-endian flag is carried exactly when
\* endian() is Big; the calling-convention constants hold the descriptor's
\* pointer size; and the accessors of MIPS and of the core return what
\* those of ArchMIPS return.
C9_DescriptorAgrees ==
    LET m == core.data.arch_info
        a == m.arch_info
    IN  /\ a \in ArchMIPS
        /\ (ArchMIPS_pointer_size(a) = 4) <=> Carries(ArchMIPS_mode(a), 4)
        /\ (ArchMIPS_pointer_size(a) = 8) <=> Carries(ArchMIPS_mode(a), 8)
        /\ ~(Carries(ArchMIPS_mode(a), 4) /\ Carries(ArchMIPS_mode(a), 8))
        /\ ArchMIPS_pointer_size(a) \in {4, 8}
        /\ Carries(ArchMIPS_mode(a), 1073741824)
              <=> (ArchMIPS_endian(a) = "Big")
        /\ m.cc.inner.pointer_size = ArchMIPS_pointer_size(a)
        /\ MIPS_pointer_size(m) = ArchMIPS_pointer_size(a)
        /\ MIPS_pointersize(m) = ArchMIPS_pointer_size(a)
        /\ MIPS_endian(m) = ArchMIPS_endian(a)
        /\ MIPS_inherent_endian(m) = ArchMIPS_endian(a)
        /\ MIPS_mode(m) = ArchMIPS_mode(a)
        /\ MIPS_arch(m) = ArchMIPS_arch(a)
        /\ MIPS_pc_reg_id(m) = ArchMIPS_pc_reg_id(a)
        /\ MIPS_sp_reg_id(m) = ArchMIPS_sp_reg_id(a)
        /\ Core_pointer_size(core) = ArchMIPS_pointer_size(a)
        /\ Core_endian(core) = ArchMIPS_endian(a)
        /\ Core_mode(core) = ArchMIPS_mode(a)

\* C9's case: a core built from the 64-bit little-endian variant, whose
\* engine holds pointer size 8, has served a call.
C9_Witness ==
    /\ core.data.arch_info.arch_info = [mode32 |-> FALSE, endian |-> "Little"]
    /\ core.data.arch_info.cc.inner.pointer_size = 8
    /\ Core_mode(core) = 8
    /\ last.op = "get_raw_param"

\* C10 as claimed: a set_raw_param(j, v), whether it succeeds or fails,
\* leaves the result of get_raw_param(k) unchanged for every slot index
\* k # j.
C10_DistinctSlots ==
    [][last'.op = "set_raw_param" =>
          \A k \in Slots \ {last'.n} :
              get_raw_param(core', k, None).res
                  = get_raw_param(core, k, None).res]_vars

=============================================================================
